---- MODULE Spec2Model ----
(***************************************************************************)
(* A model of pipecat's streaming TTS session clients                      *)
(*   src/src/pipecat/services/elevenlabs.py  (ElevenLabsTTSService)        *)
(*   src/src/pipecat/services/lmnt.py        (LmntTTSService)              *)
(*                                                                         *)
(* Three specifications share the module:                                  *)
(*   Spec          the ElevenLabs session state machine: the caller-driven *)
(*                 operations, the receiver and keepalive tasks, frames    *)
(*                 pushed from outside, and the transport;                 *)
(*   SpecAlign     calculate_word_times driven as the receiver loop drives *)
(*                 it, over bounded alignment batches;                     *)
(*   SpecSettings  InputParams validation and set_voice_settings.          *)
(*                                                                         *)
(* Conventions.                                                            *)
(*  - asyncio is cooperative: a task runs from one await to the next       *)
(*    without interruption.  Every await on code outside the file is a     *)
(*    point at which the other tasks may run; one action is one such       *)
(*    segment.                                                             *)
(*  - Times are kept in integer milliseconds: the float t seconds of the   *)
(*    source is the integer 1000*t here (0.1 s is 100).                    *)
(*  - None is 0, for handles, task references and parameters alike.        *)
(***************************************************************************)
EXTENDS Integers, Sequences, FiniteSets, TLC

VARIABLES
    \* ---- ElevenLabsTTSService fields ----
    _websocket,        \* self._websocket: 0 (None) or a connection id
    _receive_task,     \* self._receive_task: Unset, 0 (None) or a task id
    _keepalive_task,   \* self._keepalive_task: Unset, 0 (None) or a task id
    _started,          \* self._started
    _cumulative_time,  \* self._cumulative_time, in ms
    _params,           \* self._params: the InputParams voice fields
    _voice_settings,   \* self._voice_settings
    \* ---- objects the fields refer to ----
    conn,              \* connection id -> "none" | "open" | "broken" | "closed"
    rtask,             \* task id -> the receiver task's position and locals
    ktask,             \* task id -> "none" | "alive" | "sending" | "cancelling" | "done"
    texted,            \* connection id -> the service was sent utterance text on it
    \* ---- control ----
    cfg,               \* InputParams construction: "none" | "ok" | "invalid"
    life,              \* "init" | "running" | "stopped"
    mainpc,            \* where the caller-driven operation is suspended
    ret,               \* continuation of the running _connect / _disconnect
    extpc,             \* a push_frame of a frame pushed from outside run_tts
    \* ---- observation of what went downstream ----
    startsOpen,        \* TTSStartedFrames pushed since the last stop/interruption (capped at 2)
    lastEmit,          \* the last frame or word-timing event pushed downstream
    failWs,            \* run_tts: the connection its text send failed on (0: none)
    rtStops,           \* run_tts: TTSStoppedFrames this call has pushed
    \* ---- SpecAlign ----
    a_in,              \* the alignment batch of the last call
    a_cum,             \* the cumulative_time argument of the last call
    a_res,             \* the word_times the last call returned
    a_prev,            \* the word_times the call before returned
    a_calls            \* number of calls made

svcVars == << _websocket, _receive_task, _keepalive_task, _started, _cumulative_time,
              conn, rtask, ktask, texted, life, mainpc, ret, extpc,
              startsOpen, lastEmit, failWs, rtStops >>
cfgVars == << _params, _voice_settings, cfg >>
alignVars == << a_in, a_cum, a_res, a_prev, a_calls >>
vars == << svcVars, cfgVars, alignVars >>

(***************************************************************************)
(* Bounds                                                                  *)
(***************************************************************************)
MaxConns == 2
MaxCum == 200
MaxBatchLen == 3
MaxCalls == 2

(***************************************************************************)
(* calculate_word_times                                                    *)
(***************************************************************************)
Space == " "
AlignChars == {"a", Space}
TimeVals == {100 * k : k \in 0..MaxBatchLen}

\* zip(alignment_info["chars"], alignment_info["charStartTimesMs"]): zip stops
\* at the shorter list.
MinOf(a, b) == IF a <= b THEN a ELSE b
zipped_times(chars, times) ==
    [i \in 1..MinOf(Len(chars), Len(times)) |-> << chars[i], times[i] >>]

RECURSIVE split(_, _)
\* "".join(alignment_info["chars"]).split(" "), computed on the characters
\* one by one (each element of chars is one character): cur is the word being
\* read; a space ends it (an empty word included), the end of the input ends
\* the last one.
split(chars, cur) ==
    IF chars = << >> THEN << cur >>
    ELSE IF Head(chars) = Space THEN << cur >> \o split(Tail(chars), "")
    ELSE split(Tail(chars), cur \o Head(chars))

\* zipped_times[i - 1][1] with Python's 0-based i: index -1 (i = 0) is the
\* last element.  z is 1-based here, so Python's i is k - 1.
PrevIndex(z, k) == IF k = 1 THEN Len(z) ELSE k - 1
BoundaryTimeAtSelf(z, k, cumulative_time) == cumulative_time + z[k][2]
BoundaryTime(z, k, cumulative_time) == cumulative_time + z[PrevIndex(z, k)][2]

IsBoundary(z, k) == z[k][1] = Space \/ k = Len(z)

RECURSIVE BoundaryTimes(_, _, _)
\* the for loop: times.append(t) at every boundary, in order.
BoundaryTimes(z, k, cumulative_time) ==
    IF k > Len(z) THEN << >>
    ELSE (IF IsBoundary(z, k) THEN << BoundaryTime(z, k, cumulative_time) >> ELSE << >>)
         \o BoundaryTimes(z, k + 1, cumulative_time)

calculate_word_times(alignment_info, cumulative_time) ==
    LET z == zipped_times(alignment_info.chars, alignment_info.charStartTimesMs)
        words == split(alignment_info.chars, "")
        times == BoundaryTimes(z, 1, cumulative_time)
    IN  [i \in 1..MinOf(Len(words), Len(times)) |-> << words[i], times[i] >>]

\* The batches SpecAlign feeds the aligner: every character sequence of length
\* 1..MaxBatchLen over AlignChars with strictly increasing start times, and
\* the batch of the documented example.
Increasing(t) == \A i \in 1..(Len(t) - 1) : t[i] < t[i + 1]
BatchesOfLen(n) ==
    { [chars |-> c, charStartTimesMs |-> t] :
        c \in [1..n -> AlignChars], t \in { s \in [1..n -> TimeVals] : Increasing(s) } }
ExampleBatch ==
    [chars |-> << "h", "i", " ", "y", "o", "u" >>,
     charStartTimesMs |-> << 0, 100, 200, 300, 400, 500 >>]
Batches == UNION { BatchesOfLen(n) : n \in 1..MaxBatchLen } \cup { ExampleBatch }

LastTime(word_times) == word_times[Len(word_times)][2]

InitAlign ==
    /\ a_in = [chars |-> << >>, charStartTimesMs |-> << >>]
    /\ a_cum = 0
    /\ a_res = << >>
    /\ a_prev = << >>
    /\ a_calls = 0

\* One pass of the receiver's alignment branch (lines 292-295): the batch is
\* aligned against the offset, and the offset the next call gets is the last
\* time this call returned.  The first call has offset 0 (line 328).
AlignCall(b) ==
    /\ a_calls < MaxCalls
    /\ a_calls > 0 => a_res # << >>
    /\ LET off == IF a_calls = 0 THEN 0 ELSE LastTime(a_res)
       IN  /\ a_in' = b
           /\ a_cum' = off
           /\ a_res' = calculate_word_times(b, off)
    /\ a_prev' = a_res
    /\ a_calls' = a_calls + 1

(***************************************************************************)
(* InputParams and the voice settings                                      *)
(***************************************************************************)
\* An Optional[float] / Optional[bool] parameter: 0 is None, 1 and 2 are two
\* distinct given values.
ParamVals == {0, 1, 2}
ParamRecs ==
    [stability : ParamVals, similarity_boost : ParamVals,
     style : {0, 1}, use_speaker_boost : {0, 1}]
DefaultParams ==
    [stability |-> 0, similarity_boost |-> 0, style |-> 0, use_speaker_boost |-> 0]
\* voice_settings or None: the dict is a record whose absent keys are 0; the
\* empty dict, and so None, is the record with every key absent.
NoSettings ==
    [stability |-> 0, similarity_boost |-> 0, style |-> 0, use_speaker_boost |-> 0]

\* the model validator: TRUE when it returns self, FALSE when it raises.
validate_voice_settings(p) == (p.stability = 0) = (p.similarity_boost = 0)

set_voice_settings_dict(p) ==
    IF p.stability # 0 /\ p.similarity_boost # 0
    THEN [stability |-> p.stability, similarity_boost |-> p.similarity_boost,
          style |-> p.style, use_speaker_boost |-> p.use_speaker_boost]
    ELSE NoSettings

\* arg if arg is not None else the current value
Keep(arg, current) == IF arg # 0 THEN arg ELSE current

(***************************************************************************)
(* The session state machine of ElevenLabsTTSService                       *)
(***************************************************************************)
ConnIds == 1..MaxConns
\* __init__ assigns neither _receive_task nor _keepalive_task: until the first
\* successful websockets.connect the attributes do not exist, and reading one
\* raises AttributeError.
Unset == -1

\* A receiver task: st is its position, ws the websocket object its
\* "async for" iterates, al the alignment batch of the message in hand (an
\* index of WireBatches, 0: none), t the word_times[-1][1] it is about to
\* store (-1: word_times is empty), err whether msg, the last message it
\* read, is a vendor error message.
NoTask == [st |-> "none", ws |-> 0, al |-> 0, t |-> 0, err |-> FALSE]
NewTask == [st |-> "new", ws |-> 0, al |-> 0, t |-> 0, err |-> FALSE]
DoneTask == [st |-> "done", ws |-> 0, al |-> 0, t |-> 0, err |-> FALSE]
CancellingTask == [st |-> "cancelling", ws |-> 0, al |-> 0, t |-> 0, err |-> FALSE]

\* The alignment batches that arrive on the wire in Spec: a two-word batch
\* and an empty one.
WireBatches ==
    << [chars |-> << "a", " ", "b" >>, charStartTimesMs |-> << 0, 100, 200 >>],
       [chars |-> << >>, charStartTimesMs |-> << >>] >>
\* An inbound message: msg.get("audio") truthy or not, msg.get("alignment")
\* one of WireBatches or absent (0).
Messages == [audio : BOOLEAN, al : 0..Len(WireBatches)]

NoEmit == [kind |-> "none", active |-> FALSE, stopped |-> FALSE]
\* What the downstream consumer sees of a push: the kind of frame or event,
\* the value of _started as it is emitted, and whether stop()/cancel() had
\* returned.
PushDown(kind, active) ==
    /\ lastEmit' = [kind |-> kind, active |-> active, stopped |-> (life = "stopped")]
    /\ startsOpen' = CASE kind = "started" -> MinOf(startsOpen + 1, 2)
                       [] kind \in {"stopped", "interruption"} -> 0
                       [] OTHER -> startsOpen

InitService ==
    /\ _websocket = 0
    /\ _receive_task = Unset
    /\ _keepalive_task = Unset
    /\ _started = FALSE
    /\ _cumulative_time = 0
    /\ conn = [c \in ConnIds |-> "none"]
    /\ rtask = [c \in ConnIds |-> NoTask]
    /\ ktask = [c \in ConnIds |-> "none"]
    /\ texted = [c \in ConnIds |-> FALSE]
    /\ life = "init"
    /\ mainpc = "idle"
    /\ ret = "idle"
    /\ extpc = "idle"
    /\ startsOpen = 0
    /\ lastEmit = NoEmit
    /\ failWs = 0
    /\ rtStops = 0

InitDefaultParams ==
    /\ cfg = "ok"
    /\ _params = DefaultParams
    /\ _voice_settings = set_voice_settings_dict(DefaultParams)

Init == InitService /\ InitDefaultParams /\ InitAlign

fieldVars == << _websocket, _receive_task, _keepalive_task, _started, _cumulative_time >>
objVars == << conn, rtask, ktask, texted >>
obsVars == << startsOpen, lastEmit, failWs, rtStops >>
otherVars == << cfgVars, alignVars >>

\* Where the caller continues when _connect or _disconnect returns.
ReturnTo ==
    CASE ret = "stopped"      -> /\ mainpc' = "idle" /\ ret' = "idle" /\ life' = "stopped"
      [] ret = "reconnect"    -> /\ mainpc' = "c_open" /\ ret' = "idle" /\ life' = life
      [] ret = "rt_reconnect" -> /\ mainpc' = "c_open" /\ ret' = "rt_return" /\ life' = life
      [] ret = "rt_check"     -> /\ mainpc' = "rt_check" /\ ret' = "idle" /\ life' = life
      [] ret = "rt_return"    -> /\ mainpc' = "rt_return" /\ ret' = "idle" /\ life' = life
      [] OTHER                -> /\ mainpc' = "idle" /\ ret' = "idle" /\ life' = life

CanCall == cfg = "ok" /\ life = "running" /\ mainpc = "idle"

\* ---- start / stop / cancel / set_voice / set_model ----
start ==
    /\ cfg = "ok" /\ life = "init" /\ mainpc = "idle"
    /\ life' = "running" /\ mainpc' = "c_open" /\ ret' = "idle"
    /\ UNCHANGED << fieldVars, objVars, extpc, obsVars, otherVars >>

EnterDisconnect(r) ==
    /\ mainpc' = "d_metrics" /\ ret' = r
    /\ UNCHANGED << fieldVars, objVars, life, extpc, obsVars, otherVars >>

stop == CanCall /\ extpc = "idle" /\ EnterDisconnect("stopped")
cancel == CanCall /\ extpc = "idle" /\ EnterDisconnect("stopped")
set_voice == CanCall /\ EnterDisconnect("reconnect")
set_model == CanCall /\ EnterDisconnect("reconnect")

\* ---- _connect ----
FreeConn == CHOOSE c \in ConnIds : conn[c] = "none" /\ \A d \in ConnIds : d < c => conn[d] # "none"

\* websockets.connect(url) raises: except branch, self._websocket = None.
ConnectOpenFail ==
    /\ mainpc = "c_open"
    /\ _websocket' = 0
    /\ ReturnTo
    /\ UNCHANGED << _receive_task, _keepalive_task, _started, _cumulative_time,
                    objVars, extpc, obsVars, otherVars >>

\* websockets.connect(url) returns: the handle is stored and both tasks are
\* created; the handshake send is awaited next.  The event loop runs a created
\* task's first step at the creator's next suspension, and the connect takes
\* several: a receiver created by an earlier _connect has started by now.
ConnectOpenOk ==
    /\ mainpc = "c_open"
    /\ \E c \in ConnIds : conn[c] = "none"
    /\ \A id \in ConnIds : rtask[id].st # "new"
    /\ LET c == FreeConn
       IN  /\ conn' = [conn EXCEPT ![c] = "open"]
           /\ _websocket' = c
           /\ _receive_task' = c
           /\ rtask' = [rtask EXCEPT ![c] = NewTask]
           /\ _keepalive_task' = c
           /\ ktask' = [ktask EXCEPT ![c] = "alive"]
    /\ mainpc' = "c_send"
    /\ UNCHANGED << _started, _cumulative_time, texted, life, ret, extpc, obsVars, otherVars >>

ConnectHandshakeOk ==
    /\ mainpc = "c_send"
    /\ conn[_websocket] = "open"
    /\ ReturnTo
    /\ UNCHANGED << fieldVars, objVars, extpc, obsVars, otherVars >>

\* the handshake send raises and the handle is kept (no line 255).
ConnectHandshakeFailKeepsHandle ==
    /\ mainpc = "c_send"
    /\ conn[_websocket] # "open"
    /\ ReturnTo
    /\ UNCHANGED << fieldVars, objVars, extpc, obsVars, otherVars >>

\* the handshake send raises: except branch, self._websocket = None; the tasks
\* created above are left as they are.
ConnectHandshakeFail ==
    /\ mainpc = "c_send"
    /\ conn[_websocket] # "open"
    /\ _websocket' = 0
    /\ ReturnTo
    /\ UNCHANGED << _receive_task, _keepalive_task, _started, _cumulative_time,
                    objVars, extpc, obsVars, otherVars >>

\* ---- _disconnect ----
\* task.cancel(): a task that has finished is left alone; any other gets
\* CancelledError at the await it is suspended in and ends at its next step.
CancelReceiver(id) ==
    IF rtask[id].st = "done" THEN rtask ELSE [rtask EXCEPT ![id] = CancellingTask]
CancelKeepalive(id) ==
    IF ktask[id] = "done" THEN ktask ELSE [ktask EXCEPT ![id] = "cancelling"]

\* Lines 271-276, entered with the receiver part behind: sets _keepalive_task,
\* ktask, _started and the control variables.
KeepalivePart ==
    \/ /\ _keepalive_task = Unset          \* AttributeError, logged at line 278
       /\ ReturnTo
       /\ UNCHANGED << _keepalive_task, ktask, _started >>
    \/ /\ _keepalive_task = 0
       /\ _started' = FALSE
       /\ ReturnTo
       /\ UNCHANGED << _keepalive_task, ktask >>
    \/ /\ _keepalive_task \in ConnIds
       /\ ktask' = CancelKeepalive(_keepalive_task)
       /\ mainpc' = "d_kwait"
       /\ UNCHANGED << _keepalive_task, _started, ret, life >>

\* Lines 266-276, entered after the websocket part.
ReceiverPart ==
    \/ /\ _receive_task = Unset            \* AttributeError, logged at line 278
       /\ ReturnTo
       /\ UNCHANGED << _receive_task, rtask, _keepalive_task, ktask, _started >>
    \/ /\ _receive_task = 0
       /\ UNCHANGED << _receive_task, rtask >>
       /\ KeepalivePart
    \/ /\ _receive_task \in ConnIds
       /\ rtask' = CancelReceiver(_receive_task)
       /\ mainpc' = "d_rwait"
       /\ UNCHANGED << _receive_task, _keepalive_task, ktask, _started, ret, life >>

\* stop_all_metrics() has returned; with a handle, the close-intent message
\* {"text": ""} is sent next, without one the tasks are dealt with.
DisconnectMetrics ==
    /\ mainpc = "d_metrics"
    /\ \/ /\ _websocket # 0
          /\ mainpc' = "d_send"
          /\ UNCHANGED << _receive_task, rtask, _keepalive_task, ktask, _started, ret, life >>
       \/ /\ _websocket = 0
          /\ ReceiverPart
    /\ UNCHANGED << _websocket, _cumulative_time, conn, texted, extpc, obsVars, otherVars >>

\* the close-intent send went out; websocket.close() is called.
DisconnectSendOk ==
    /\ mainpc = "d_send"
    /\ conn[_websocket] = "open"
    /\ conn' = [conn EXCEPT ![_websocket] = "closed"]
    /\ mainpc' = "d_close"
    /\ UNCHANGED << fieldVars, rtask, ktask, texted, life, ret, extpc, obsVars, otherVars >>

\* the close-intent send raises: the except branch at line 277 logs it and
\* _disconnect returns, the rest of the body skipped.
DisconnectSendFail ==
    /\ mainpc = "d_send"
    /\ conn[_websocket] # "open"
    /\ ReturnTo
    /\ UNCHANGED << fieldVars, objVars, extpc, obsVars, otherVars >>

\* close() has returned: self._websocket = None, then the receiver task.
DisconnectClosed ==
    /\ mainpc = "d_close"
    /\ _websocket' = 0
    /\ ReceiverPart
    /\ UNCHANGED << _cumulative_time, conn, texted, extpc, obsVars, otherVars >>

\* await self._receive_task has returned.
DisconnectReceiverDone ==
    /\ mainpc = "d_rwait"
    /\ rtask[_receive_task].st = "done"
    /\ _receive_task' = 0
    /\ KeepalivePart
    /\ UNCHANGED << _websocket, _cumulative_time, conn, rtask, texted, extpc, obsVars,
                    otherVars >>

\* await self._keepalive_task has returned.
DisconnectKeepaliveDone ==
    /\ mainpc = "d_kwait"
    /\ ktask[_keepalive_task] = "done"
    /\ _keepalive_task' = 0
    /\ _started' = FALSE
    /\ ReturnTo
    /\ UNCHANGED << _websocket, _receive_task, _cumulative_time, objVars, extpc,
                    obsVars, otherVars >>

\* ---- run_tts ----
run_tts ==
    /\ CanCall
    /\ IF _websocket = 0
       THEN mainpc' = "c_open" /\ ret' = "rt_check"
       ELSE mainpc' = "rt_check" /\ ret' = "idle"
    /\ failWs' = 0 /\ rtStops' = 0
    /\ UNCHANGED << fieldVars, objVars, life, extpc, startsOpen, lastEmit, otherVars >>

\* if not self._started: push_frame(TTSStartedFrame()) is called; the call and
\* start_ttfb_metrics() are awaited before line 327.
RunTtsPushStarted ==
    /\ mainpc = "rt_check"
    /\ ~_started
    /\ PushDown("started", _started)
    /\ mainpc' = "rt_started"
    /\ UNCHANGED << fieldVars, objVars, life, ret, extpc, failWs, rtStops, otherVars >>

RunTtsAlreadyStarted ==
    /\ mainpc = "rt_check"
    /\ _started
    /\ mainpc' = "rt_send"
    /\ UNCHANGED << fieldVars, objVars, life, ret, extpc, obsVars, otherVars >>

\* lines 327-328, then _send_text is called.
RunTtsSetStarted ==
    /\ mainpc = "rt_started"
    /\ _started' = TRUE
    /\ _cumulative_time' = 0
    /\ mainpc' = "rt_send"
    /\ UNCHANGED << _websocket, _receive_task, _keepalive_task, objVars, life, ret,
                    extpc, obsVars, otherVars >>

\* _send_text: nothing is sent without a handle; with one the send goes out.
\* start_tts_usage_metrics and the yield follow and the call is over.
RunTtsSendOk ==
    /\ mainpc = "rt_send"
    /\ IF _websocket = 0 THEN TRUE ELSE conn[_websocket] = "open"
    /\ texted' = IF _websocket = 0 THEN texted ELSE [texted EXCEPT ![_websocket] = TRUE]
    /\ mainpc' = "idle"
    /\ UNCHANGED << fieldVars, conn, rtask, ktask, life, ret, extpc, obsVars, otherVars >>

\* the send raises: line 334 calls push_frame(TTSStoppedFrame()).
RunTtsSendFail ==
    /\ mainpc = "rt_send"
    /\ IF _websocket = 0 THEN FALSE ELSE conn[_websocket] # "open"
    /\ failWs' = _websocket
    /\ rtStops' = rtStops + 1
    /\ PushDown("stopped", _started)
    /\ mainpc' = "rt_fail_pushed"
    /\ UNCHANGED << fieldVars, objVars, life, ret, extpc, otherVars >>

\* push_frame lines 217-220 for the TTSStoppedFrame of line 334.
RunTtsFailReset ==
    /\ mainpc = "rt_fail_pushed"
    /\ _started' = FALSE
    /\ PushDown("marker", FALSE)
    /\ mainpc' = "rt_fail_marker"
    /\ UNCHANGED << _websocket, _receive_task, _keepalive_task, _cumulative_time,
                    objVars, life, ret, extpc, failWs, rtStops, otherVars >>

\* line 335: _disconnect, to be followed by _connect (line 336).
RunTtsFailDisconnect ==
    /\ mainpc = "rt_fail_marker"
    /\ mainpc' = "d_metrics" /\ ret' = "rt_reconnect"
    /\ UNCHANGED << fieldVars, objVars, life, extpc, obsVars, otherVars >>

\* line 337: return.
RunTtsFailReturn ==
    /\ mainpc = "rt_return"
    /\ mainpc' = "idle"
    /\ failWs' = 0 /\ rtStops' = 0
    /\ UNCHANGED << fieldVars, objVars, life, ret, extpc, startsOpen, lastEmit, otherVars >>

\* ---- push_frame of a frame that comes from outside run_tts ----
\* The host pipeline pushes a TTSStoppedFrame through push_frame when it has
\* seen no audio for a while after an utterance start, and a
\* StartInterruptionFrame whenever the user interrupts.  Neither arrives once
\* stop()/cancel() is under way.
CanPushExternal == cfg = "ok" /\ life = "running" /\ extpc = "idle" /\ ret # "stopped"

\* super().push_frame(TTSStoppedFrame) is called and awaited.
PushStoppedFrame ==
    /\ CanPushExternal
    /\ startsOpen >= 1
    /\ PushDown("stopped", _started)
    /\ extpc' = "stop_pushed"
    /\ UNCHANGED << fieldVars, objVars, life, mainpc, ret, failWs, rtStops, otherVars >>

\* lines 218-220: self._started = False, then the end-of-response marker.
PushStoppedReset ==
    /\ extpc = "stop_pushed"
    /\ _started' = FALSE
    /\ PushDown("marker", FALSE)
    /\ extpc' = "idle"
    /\ UNCHANGED << _websocket, _receive_task, _keepalive_task, _cumulative_time,
                    objVars, life, mainpc, ret, failWs, rtStops, otherVars >>

\* super().push_frame(StartInterruptionFrame) is called and awaited.
PushInterruptionFrame ==
    /\ CanPushExternal
    /\ PushDown("interruption", _started)
    /\ extpc' = "intr_pushed"
    /\ UNCHANGED << fieldVars, objVars, life, mainpc, ret, failWs, rtStops, otherVars >>

\* line 218: self._started = False.
PushInterruptionReset ==
    /\ extpc = "intr_pushed"
    /\ _started' = FALSE
    /\ extpc' = "idle"
    /\ UNCHANGED << _websocket, _receive_task, _keepalive_task, _cumulative_time,
                    objVars, life, mainpc, ret, obsVars, otherVars >>

\* ---- _receive_task_handler ----
\* The task's first step: "async for message in self._websocket" takes the
\* handle as it is now; None is not iterable (TypeError, logged, task over).
ReceiverStart(id) ==
    /\ rtask[id].st = "new"
    /\ rtask' = [rtask EXCEPT ![id] =
                    IF _websocket = 0 THEN DoneTask
                    ELSE [st |-> "wait", ws |-> _websocket, al |-> 0, t |-> 0, err |-> FALSE]]
    /\ UNCHANGED << fieldVars, conn, ktask, texted, life, mainpc, ret, extpc, obsVars, otherVars >>

\* lines 293-294 for batch al: the word times are computed against the offset
\* as it is now and handed to add_word_timestamps, which is awaited; line 295
\* runs when it returns.
AlignmentOf(al) == calculate_word_times(WireBatches[al], _cumulative_time)
AlignmentFits(al) ==
    AlignmentOf(al) # << >> => LastTime(AlignmentOf(al)) <= MaxCum
AddWordTimestamps(id, al) ==
    LET word_times == AlignmentOf(al)
    IN  /\ IF word_times = << >>
           THEN UNCHANGED << startsOpen, lastEmit >>
           ELSE PushDown("words", _started)
        /\ rtask' = [rtask EXCEPT ![id] =
                        [st |-> "words_added", ws |-> rtask[id].ws, al |-> 0,
                         t |-> IF word_times = << >> THEN -1 ELSE LastTime(word_times),
                         err |-> FALSE]]

\* A message arrives on the task's websocket: the server answers utterance
\* text, so none arrives on a connection that was sent none.
ReceiverMessage(id, m) ==
    /\ rtask[id].st = "wait"
    /\ conn[rtask[id].ws] = "open"
    /\ texted[rtask[id].ws]
    /\ m.al # 0 => AlignmentFits(m.al)
    /\ IF m.audio
       THEN /\ PushDown("audio", _started)
            /\ rtask' = [rtask EXCEPT ![id] =
                            [st |-> "audio_pushed", ws |-> rtask[id].ws, al |-> m.al, t |-> 0,
                             err |-> FALSE]]
       ELSE IF m.al # 0
       THEN AddWordTimestamps(id, m.al)
       ELSE /\ rtask' = [rtask EXCEPT ![id].err = FALSE]
            /\ UNCHANGED << startsOpen, lastEmit >>
    /\ UNCHANGED << fieldVars, conn, ktask, texted, life, mainpc, ret, extpc, failWs, rtStops,
                    otherVars >>

\* A vendor error message ({"error": ..., "message": ...}) arrives: it has no
\* "audio" and no "alignment" key, so neither branch of the loop body is taken
\* and the loop reads the next message.
ReceiverVendorError(id) ==
    /\ rtask[id].st = "wait"
    /\ conn[rtask[id].ws] = "open"
    /\ rtask' = [rtask EXCEPT ![id].err = TRUE]
    /\ UNCHANGED << fieldVars, conn, ktask, texted, life, mainpc, ret, extpc, obsVars, otherVars >>

\* push_frame(TTSAudioRawFrame) has returned and the loop reads the next
\* message with the alignment of this one still to come.
ReceiverAfterAudioReadsOn(id) ==
    /\ rtask[id].st = "audio_pushed"
    /\ rtask' = [rtask EXCEPT ![id].st = "wait"]
    /\ UNCHANGED << fieldVars, conn, ktask, texted, life, mainpc, ret, extpc, obsVars, otherVars >>

\* push_frame(TTSAudioRawFrame) has returned: the alignment of the same
\* message, if any, is next.
ReceiverAfterAudio(id) ==
    /\ rtask[id].st = "audio_pushed"
    /\ rtask[id].al # 0 => AlignmentFits(rtask[id].al)
    /\ IF rtask[id].al # 0
       THEN AddWordTimestamps(id, rtask[id].al)
       ELSE /\ rtask' = [rtask EXCEPT ![id] =
                            [st |-> "wait", ws |-> rtask[id].ws, al |-> 0, t |-> 0, err |-> FALSE]]
            /\ UNCHANGED << startsOpen, lastEmit >>
    /\ UNCHANGED << fieldVars, conn, ktask, texted, life, mainpc, ret, extpc, failWs, rtStops,
                    otherVars >>

\* line 295: self._cumulative_time = word_times[-1][1]; on an empty list this
\* is an IndexError, logged at line 299, and the task is over.
ReceiverAfterWords(id) ==
    /\ rtask[id].st = "words_added"
    /\ IF rtask[id].t = -1
       THEN /\ rtask' = [rtask EXCEPT ![id] = DoneTask]
            /\ UNCHANGED _cumulative_time
       ELSE /\ rtask' = [rtask EXCEPT ![id] =
                            [st |-> "wait", ws |-> rtask[id].ws, al |-> 0, t |-> 0, err |-> FALSE]]
            /\ _cumulative_time' = rtask[id].t
    /\ UNCHANGED << _websocket, _receive_task, _keepalive_task, _started, conn, ktask,
                    texted, life, mainpc, ret, extpc, obsVars, otherVars >>

\* the websocket is closed or broken: the iteration ends or raises.
ReceiverClosed(id) ==
    /\ rtask[id].st = "wait"
    /\ conn[rtask[id].ws] \in {"closed", "broken"}
    /\ rtask' = [rtask EXCEPT ![id] = DoneTask]
    /\ UNCHANGED << fieldVars, conn, ktask, texted, life, mainpc, ret, extpc, obsVars, otherVars >>

\* except asyncio.CancelledError: pass.
ReceiverCancelled(id) ==
    /\ rtask[id].st = "cancelling"
    /\ rtask' = [rtask EXCEPT ![id] = DoneTask]
    /\ UNCHANGED << fieldVars, conn, ktask, texted, life, mainpc, ret, extpc, obsVars, otherVars >>

\* ---- _keepalive_task_handler ----
\* One turn of the loop: the sleep of 10 s is over and _send_text("") is
\* called.  Without a handle it sends nothing and the loop sleeps again; with
\* one, {"text": " "} is sent on the handle the service holds now and the send
\* is awaited.
KeepaliveTurn(id) ==
    /\ ktask[id] = "alive"
    /\ ktask' = IF _websocket = 0 THEN ktask ELSE [ktask EXCEPT ![id] = "sending"]
    /\ UNCHANGED << fieldVars, conn, rtask, texted, life, mainpc, ret, extpc, obsVars, otherVars >>

\* the send has returned, or has raised and the exception is logged (line
\* 309): the loop sleeps again.
KeepaliveSent(id) ==
    /\ ktask[id] = "sending"
    /\ ktask' = [ktask EXCEPT ![id] = "alive"]
    /\ UNCHANGED << fieldVars, conn, rtask, texted, life, mainpc, ret, extpc, obsVars, otherVars >>

KeepaliveCancelled(id) ==
    /\ ktask[id] = "cancelling"
    /\ ktask' = [ktask EXCEPT ![id] = "done"]
    /\ UNCHANGED << fieldVars, conn, rtask, texted, life, mainpc, ret, extpc, obsVars, otherVars >>

\* ---- the transport ----
\* The connection fails or the server drops it: every later send on it raises.
ConnectionBreaks(c) ==
    /\ conn[c] = "open"
    /\ conn' = [conn EXCEPT ![c] = "broken"]
    /\ UNCHANGED << fieldVars, rtask, ktask, texted, life, mainpc, ret, extpc, obsVars, otherVars >>

Next ==
    \/ start
    \/ stop
    \/ cancel
    \/ set_voice
    \/ set_model
    \/ ConnectOpenFail
    \/ ConnectOpenOk
    \/ ConnectHandshakeOk
    \/ ConnectHandshakeFail
    \/ DisconnectMetrics
    \/ DisconnectSendOk
    \/ DisconnectSendFail
    \/ DisconnectClosed
    \/ DisconnectReceiverDone
    \/ DisconnectKeepaliveDone
    \/ run_tts
    \/ RunTtsPushStarted
    \/ RunTtsAlreadyStarted
    \/ RunTtsSetStarted
    \/ RunTtsSendOk
    \/ RunTtsSendFail
    \/ RunTtsFailReset
    \/ RunTtsFailDisconnect
    \/ RunTtsFailReturn
    \/ PushStoppedFrame
    \/ PushStoppedReset
    \/ PushInterruptionFrame
    \/ PushInterruptionReset
    \/ \E id \in ConnIds : ReceiverStart(id)
    \/ \E id \in ConnIds, m \in Messages : ReceiverMessage(id, m)
    \/ \E id \in ConnIds : ReceiverVendorError(id)
    \/ \E id \in ConnIds : ReceiverAfterAudio(id)
    \/ \E id \in ConnIds : ReceiverAfterWords(id)
    \/ \E id \in ConnIds : ReceiverClosed(id)
    \/ \E id \in ConnIds : ReceiverCancelled(id)
    \/ \E id \in ConnIds : KeepaliveTurn(id)
    \/ \E id \in ConnIds : KeepaliveSent(id)
    \/ \E id \in ConnIds : KeepaliveCancelled(id)
    \/ \E c \in ConnIds : ConnectionBreaks(c)

Spec == Init /\ [][Next]_vars

(***************************************************************************)
(* Claims about the session state machine (checked under Spec)             *)
(***************************************************************************)
AudioOrTiming == {"audio", "words", "marker"}
ReceiverAlive(id) == rtask[id].st \notin {"none", "done"}
KeepaliveAlive(id) == ktask[id] \notin {"none", "done"}
DisconnectPcs == {"d_metrics", "d_send", "d_close", "d_rwait", "d_kwait"}

\* C1: the frames pushed downstream never hold two TTSStartedFrames with no
\* TTSStoppedFrame or StartInterruptionFrame between them.
C1_NoSecondStart == startsOpen <= 1

\* C2: an audio frame or a word-timing event (the end-of-response marker
\* included) is emitted only while _started is true.
C2_EmitOnlyWhileStarted == lastEmit.kind \in AudioOrTiming => lastEmit.active

\* C3: whenever nothing is suspended inside run_tts, push_frame or
\* _disconnect, _started is true exactly when a TTSStartedFrame has been
\* pushed and no TTSStoppedFrame or StartInterruptionFrame has been pushed
\* since.
Quiescent ==
    /\ mainpc = "idle"
    /\ extpc = "idle"
    /\ \A id \in ConnIds : rtask[id].st # "audio_pushed"
C3_StartedIffOpen == Quiescent => (_started <=> startsOpen >= 1)

\* C4: once a stop or interruption has passed through push_frame (and no
\* TTSStartedFrame has been pushed since), the next run_tts pushes a fresh
\* TTSStartedFrame before it sends; and _cumulative_time is reset to 0 at
\* every step that takes _started from false to true, and by no other step.
C4_FreshStartAndReset ==
    [][ /\ (mainpc = "rt_check" /\ mainpc' # "rt_check" /\ startsOpen = 0 /\ extpc = "idle")
            => (mainpc' = "rt_started" /\ startsOpen' = 1)
        /\ (~_started /\ _started') => _cumulative_time' = 0
        /\ (_cumulative_time # 0 /\ _cumulative_time' = 0) => (~_started /\ _started')
      ]_vars

\* C5: a run_tts whose text send failed returns having pushed exactly one
\* TTSStoppedFrame, with the failed connection closed and released and its
\* receiver and keepalive tasks over, and with the utterance inactive, so
\* that the next run_tts starts afresh on the new handle.
C5_SendFailureRecovers ==
    mainpc = "rt_return" =>
        /\ rtStops = 1
        /\ conn[failWs] # "open"
        /\ _websocket # failWs
        /\ ~ReceiverAlive(failWs)
        /\ ~KeepaliveAlive(failWs)
        /\ ~_started

\* C6: _disconnect closes the handle, and sets it to None, only after the
\* receiver and keepalive tasks of that handle have run to completion.
C6_TasksOverBeforeRelease ==
    [][ (/\ mainpc \in DisconnectPcs
         /\ _websocket # 0
         /\ \/ conn[_websocket] # "closed" /\ conn'[_websocket] = "closed"
            \/ _websocket' = 0)
        => (~ReceiverAlive(_websocket) /\ ~KeepaliveAlive(_websocket))
      ]_vars

\* C7: once stop() or cancel() has returned, no audio frame and no
\* word-timing event is emitted downstream.
C7_SilentAfterStop == ~(lastEmit.stopped /\ lastEmit.kind \in AudioOrTiming)

\* C11: when stop() or cancel() has returned the service is idle: no handle,
\* no connection left open, both tasks of every connection over, _started
\* false; a failing close-intent send changes nothing of this.
C11_StopEndsIdle ==
    life = "stopped" =>
        /\ _websocket = 0
        /\ \A c \in ConnIds : conn[c] # "open"
        /\ \A id \in ConnIds : ~ReceiverAlive(id) /\ ~KeepaliveAlive(id)
        /\ ~_started

\* C12: at most one receiver loop and one keepalive loop are alive, and when
\* no operation is under way a live loop is the one of the current handle.
C12_OneLoopOnCurrentHandle ==
    /\ Cardinality({ id \in ConnIds : ReceiverAlive(id) }) <= 1
    /\ Cardinality({ id \in ConnIds : KeepaliveAlive(id) }) <= 1
    /\ mainpc = "idle" =>
          \A id \in ConnIds : (ReceiverAlive(id) \/ KeepaliveAlive(id)) => _websocket = id

\* C13: a _connect that fails, at websockets.connect or at the handshake
\* send, returns with _websocket None, and the channel it opened, if it opened
\* one, is not open.
C13_FailedConnectLeavesNoHandle ==
    [][ /\ (mainpc = "c_open" /\ mainpc' \notin {"c_open", "c_send"})
            => (_websocket' = 0 /\ conn' = conn)
        /\ (mainpc = "c_send" /\ mainpc' # "c_send" /\ conn[_websocket] # "open")
            => (_websocket' = 0 /\ conn'[_websocket] # "open")
      ]_vars
\* a handshake send has failed: the tasks of the attempt exist, the handle is
\* None.
C13_HandshakeFailed ==
    /\ mainpc = "idle"
    /\ _websocket = 0
    /\ \E c \in ConnIds : conn[c] = "broken" /\ rtask[c].st = "new"

\* C14: a malformed alignment batch is dropped and the receiver loop goes on.
\* The empty batch is malformed (one word from the split, no boundary): the
\* receiver that has handled it (t = -1: word_times is empty) is not ended by
\* it and the offset stays as it is.
C14_MalformedBatchDropped ==
    [][ \A id \in ConnIds :
          (rtask[id].st = "words_added" /\ rtask[id].t = -1)
              => (rtask'[id].st # "done" /\ _cumulative_time' = _cumulative_time)
      ]_vars

\* C15: the step in which the receiver loop reads a vendor error message
\* pushes a TTSStoppedFrame and an error event (so that the last thing pushed
\* is one of the two and no TTSStartedFrame is left open), keeps the handle,
\* and leaves the loop waiting for the next message.
C15_VendorErrorSurfaced ==
    [][ \A id \in ConnIds :
          (rtask[id].st = "wait" /\ ~rtask[id].err /\ rtask'[id].err)
              => /\ lastEmit'.kind \in {"stopped", "error"}
                 /\ startsOpen' = 0
                 /\ _websocket' = _websocket
                 /\ rtask'[id].st = "wait"
      ]_vars

\* C16: the keepalive loop sends its message only while no utterance is
\* active: at the step in which it starts a send, _started is false.
C16_KeepaliveOnlyWhenIdle ==
    [][ \A id \in ConnIds :
          (ktask[id] = "alive" /\ ktask'[id] = "sending") => ~_started
      ]_vars

\* C17: when push_frame handles a TTSStoppedFrame or StartInterruptionFrame
\* pushed from outside: with the utterance active the end-of-response marker
\* is emitted, while _started is still true, and _started is false afterwards;
\* with the utterance inactive nothing is emitted.
C17_MarkerWhenActive ==
    [][ (extpc \in {"stop_pushed", "intr_pushed"} /\ extpc' = "idle")
          => IF _started
             THEN lastEmit'.kind = "marker" /\ lastEmit'.active /\ ~_started'
             ELSE lastEmit' = lastEmit
      ]_vars

\* C18: audio frames and word timings go downstream in the order of the
\* messages on the connection.  One loop at most reads a connection; it reads
\* the next message only when nothing of the message in hand is left to emit;
\* and of a message with audio and alignment the audio frame is pushed first
\* and the word timings are what the loop emits next.
Reading == {"wait", "audio_pushed", "words_added"}
C18_InOrder ==
    [][ \A id \in ConnIds :
          /\ \A j \in ConnIds \ {id} :
                (rtask[id].st \in Reading /\ rtask[j].st \in Reading)
                    => rtask[id].ws # rtask[j].ws
          /\ rtask[id].st = "wait" => rtask[id].al = 0
          /\ (rtask'[id].st = "audio_pushed" /\ rtask[id].st # "audio_pushed")
                => rtask[id].st = "wait"
          /\ (rtask'[id].st = "words_added" /\ rtask[id].st # "words_added")
                => rtask[id].st \in {"wait", "audio_pushed"}
          /\ (rtask[id].st = "audio_pushed" /\ rtask[id].al # 0 /\ rtask'[id] # rtask[id])
                => rtask'[id].st \in {"words_added", "cancelling"}
      ]_vars
\* the audio frame of a message is out and its alignment is the next thing
\* the loop handles.
C18_AudioOutWordsPending ==
    \E id \in ConnIds :
        rtask[id].st = "audio_pushed" /\ rtask[id].al # 0 /\ lastEmit.kind = "audio"

\* C19: a run_tts that returns normally with _started true holds a handle
\* and has sent its text on it.
C19_ActiveMeansTextSent ==
    [][ (mainpc = "rt_send" /\ mainpc' = "idle" /\ _started')
          => (_websocket' # 0 /\ texted'[_websocket'])
      ]_vars

(***************************************************************************)
(* SpecAlign: the aligner on its own                                       *)
(***************************************************************************)
InitAlignSpec == InitService /\ InitDefaultParams /\ InitAlign
NextAlign == \E b \in Batches : AlignCall(b) /\ UNCHANGED << svcVars, cfgVars >>
SpecAlign == InitAlignSpec /\ [][NextAlign]_vars

Times(word_times) == [i \in 1..Len(word_times) |-> word_times[i][2]]
Words(word_times) == [i \in 1..Len(word_times) |-> word_times[i][1]]
NoTrailingSpace(b) == b.chars # << >> /\ b.chars[Len(b.chars)] # Space

\* C8 (as amended): for chars h,i,space,y,o,u with start times 0..500 ms and
\* offset 0 the aligner returns ("hi", 0.1), ("you", 0.4); and for every batch
\* that does not end in a space it returns exactly the words of the split, in
\* order, the last character counting as a boundary.
C8_ExampleAndWordCount ==
    a_calls >= 1 =>
        /\ (a_in = ExampleBatch /\ a_cum = 0)
              => a_res = << << "hi", 100 >>, << "you", 400 >> >>
        /\ NoTrailingSpace(a_in) => Words(a_res) = split(a_in.chars, "")
C8_ExampleAligned ==
    /\ a_calls >= 1
    /\ a_in = ExampleBatch
    /\ a_cum = 0
    /\ a_res = << << "hi", 100 >>, << "you", 400 >> >>
\* C8 as stated: the example returns ("hi", 0.1), ("you", 0.5).
C8_AsStated ==
    (a_calls >= 1 /\ a_in = ExampleBatch /\ a_cum = 0)
        => a_res = << << "hi", 100 >>, << "you", 500 >> >>

\* C9: two batches with increasing start times, the first aligned at offset 0
\* and the second at the last time of the first, give word times that are
\* strictly increasing over the two results put together.
C9_TimesStrictlyIncrease ==
    a_calls = 2 => Increasing(Times(a_prev \o a_res))

(***************************************************************************)
(* SpecSettings: InputParams and set_voice_settings                        *)
(***************************************************************************)
\* InputParams(...) with the model validator, then __init__ (lines 130-131).
\* A rejected construction leaves no service; _params then holds the rejected
\* arguments.
Construct(p) ==
    /\ cfg = "none"
    /\ _params' = p
    /\ IF validate_voice_settings(p)
       THEN cfg' = "ok" /\ _voice_settings' = set_voice_settings_dict(p)
       ELSE cfg' = "invalid" /\ UNCHANGED _voice_settings
    /\ UNCHANGED << svcVars, alignVars >>

\* Lines 183-196.  The dict line 192 computes is dropped: _voice_settings
\* keeps the value __init__ gave it, and that value is what line 195 sends.
set_voice_settings(stability, similarity_boost, style, use_speaker_boost) ==
    /\ cfg = "ok" /\ life # "stopped" /\ mainpc = "idle"
    /\ _params' = [stability |-> Keep(stability, _params.stability),
                   similarity_boost |-> Keep(similarity_boost, _params.similarity_boost),
                   style |-> Keep(style, _params.style),
                   use_speaker_boost |-> Keep(use_speaker_boost, _params.use_speaker_boost)]
    /\ UNCHANGED << _voice_settings, cfg, svcVars, alignVars >>

InitSettings ==
    /\ InitService
    /\ InitAlign
    /\ cfg = "none"
    /\ _params = DefaultParams
    /\ _voice_settings = NoSettings

NextSettings ==
    \/ \E p \in ParamRecs : Construct(p)
    \/ \E a, b \in ParamVals, c, d \in {0, 1} : set_voice_settings(a, b, c, d)
    \/ start
    \/ stop
    \/ cancel
    \/ set_voice
    \/ set_model
    \/ ConnectOpenFail
    \/ ConnectOpenOk
    \/ ConnectHandshakeOk
    \/ ConnectHandshakeFail
    \/ DisconnectMetrics
    \/ DisconnectSendOk
    \/ DisconnectSendFail
    \/ DisconnectClosed
    \/ DisconnectReceiverDone
    \/ DisconnectKeepaliveDone
    \/ \E id \in ConnIds : ReceiverStart(id)
    \/ \E id \in ConnIds : ReceiverClosed(id)
    \/ \E id \in ConnIds : ReceiverCancelled(id)
    \/ \E id \in ConnIds : KeepaliveCancelled(id)
    \/ \E c \in ConnIds : ConnectionBreaks(c)

SpecSettings == InitSettings /\ [][NextSettings]_vars

Paired(p) == (p.stability = 0) = (p.similarity_boost = 0)

\* C10: a construction with exactly one of stability and similarity_boost
\* fails and every other one passes; and the service never holds parameters
\* with exactly one of the two set.
C10_SettingsPaired ==
    /\ cfg = "invalid" => ~Paired(_params)
    /\ cfg = "ok" => Paired(_params)

\* C20: the voice settings the service holds, which are what line 195 and
\* the handshake of every later _connect (lines 250-251) send, are the
\* settings derived from the parameters as set_voice_settings left them.
C20_SettingsFollowParams ==
    cfg = "ok" => _voice_settings = set_voice_settings_dict(_params)

====
